---- MODULE Spec2Model ----
(***************************************************************************)
(* Model of the desktop wallet's node client                               *)
(*   src/src/renderer/services/client.js            (ClientService)        *)
(*   src/src/renderer/store/modules/peer/system.js  (peer-system actions)  *)
(*                                                                         *)
(* The specifications of the module, one per group of variables:           *)
(*   Spec       ClientService: constructor, profile watcher, fetch calls   *)
(*   FairSpec   Spec with the watcher's queued callback eventually run     *)
(*   SpecPeer   the peer-system `update` / `system/clear` actions          *)
(*   SpecBuild  the four transaction builders                              *)
(*   SpecWallet fetchWallet's response shaping                             *)
(* A specification leaves the variables of the other groups at rest.       *)
(***************************************************************************)
EXTENDS Integers, Sequences, FiniteSets, TLC

VARIABLES
    \* ---- peer system (system.js) ----
    current,        \* getters['current/current'](): the current peer, or NoPeer
    pool,           \* the peer pool of the state container
    pc,             \* position of the running `update` call
    hadPeer,        \* whether `update` read a current peer (line 15)
    refreshed,      \* the peer peer/update resolved with (`peer` after line 24)
    failed,         \* which awaited dispatch of the try block rejected
    log,            \* the dispatches made by the latest `update` call, in order
    outcome,        \* how the latest `update` call ended for its caller
    deferred,       \* un-awaited clear actions whose effect has not landed yet
    lateClear,      \* a clear took effect after connectToBest had begun
    \* ---- client service (client.js) ----
    constructed,    \* a ClientService exists
    watching,       \* it was constructed with watchProfile = true
    profile,        \* store getter session/profile (NoProfile when none)
    selPeer,        \* store getter peer/current()
    host,           \* this.__host
    version,        \* this.__version
    clientHost,     \* connection of this.client (ApiClient)
    clientVersion,  \* version of this.client (ApiClient)
    watcherQueued,  \* the store watcher is queued to run its callback
    lastRun,        \* effects of the latest watcher callback, in order
    call,           \* the fetch call suspended on its response, or NoCall
    result,         \* what the latest completed fetch call returned
    \* ---- transaction builders (client.js) ----
    built,          \* the latest build call: its arguments and builder steps
    \* ---- fetchWallet shaping (client.js) ----
    wallet          \* the latest fetchWallet: bound version, payload, result

peerVars   == <<current, pool, pc, hadPeer, refreshed, failed, log, outcome, deferred,
                lateClear>>
clientVars == <<constructed, watching, profile, selPeer, host, version,
                clientHost, clientVersion, watcherQueued, lastRun, call, result>>
vars       == <<peerVars, clientVars, built, wallet>>

\* Bounds of the model.
MaxPeers == 2
MaxProfiles == 2

(***************************************************************************)
(*                    PEER SYSTEM  (store/modules/peer/system.js)          *)
(***************************************************************************)
NoPeer == 0
PeerIds == 1..MaxPeers

\* One dispatch: the action type and its payload.
Dispatch(type, peer, skip) == [type |-> type, peer |-> peer, skipIfCustom |-> skip]

\* The payload handed to peer/current/set: `peer` was reassigned to the
\* value peer/update resolved with.
CommitPayloadStale(old, fresh) == old
CommitPayload(old, fresh) == fresh

\* Body of system/clear up to its await: two un-awaited dispatches, then
\* the reconnect request.
SystemClearDispatchesCustomOnly ==
    << Dispatch("peers/clear", NoPeer, "unset"),
       Dispatch("current/clear", NoPeer, "unset"),
       Dispatch("peers/connectToBest", NoPeer, "true") >>
SystemClearDispatches ==
    << Dispatch("peers/clear", NoPeer, "unset"),
       Dispatch("current/clear", NoPeer, "unset"),
       Dispatch("peers/connectToBest", NoPeer, "false") >>

\* Effects of the container's own actions on the peer state.
PeersClearEffect(pl) == {}
CurrentClearEffect(cur) == NoPeer
ClearNames == {"peers/clear", "current/clear"}

\* `await dispatch('system/clear')` as reached from `update`: system/clear
\* runs synchronously up to its await.  The two clears are dispatched
\* without await, so each one's effect lands either at once (inSync) or
\* at some later turn of the event loop.
EnterSystemClear(prefix, inSync) ==
    /\ log' = prefix \o SystemClearDispatches
    /\ pool' = IF "peers/clear" \in inSync THEN PeersClearEffect(pool) ELSE pool
    /\ current' = IF "current/clear" \in inSync THEN CurrentClearEffect(current)
                                                ELSE current
    /\ deferred' = deferred \cup (ClearNames \ inSync)
    /\ pc' = "awaitConnect"

\* update, lines 15-24: read the current peer; without one go to recovery,
\* with one dispatch peer/update and suspend.
UpdateStart ==
    /\ pc = "idle"
    /\ outcome' = "running"
    /\ failed' = "none"
    /\ refreshed' = NoPeer
    /\ UNCHANGED lateClear
    /\ IF current = NoPeer
       THEN /\ hadPeer' = FALSE
            /\ \E inSync \in SUBSET ClearNames : EnterSystemClear(<<>>, inSync)
       ELSE /\ hadPeer' = TRUE
            /\ log' = << Dispatch("peer/update", current, "unset") >>
            /\ pc' = "awaitPeerUpdate"
            /\ UNCHANGED <<current, pool, deferred>>

\* update, lines 24-25: peer/update resolved with the refreshed peer, which
\* is handed to peer/current/set.
PeerUpdateResolved(refreshedPeer) ==
    /\ pc = "awaitPeerUpdate"
    /\ log' = Append(log, Dispatch("peer/current/set",
                                   CommitPayload(log[1].peer, refreshedPeer), "unset"))
    /\ refreshed' = refreshedPeer
    /\ pc' = "awaitSet"
    /\ UNCHANGED <<current, pool, hadPeer, failed, outcome, deferred, lateClear>>

\* update, lines 24, 26-28: peer/update rejected; the catch logs the error
\* and dispatches system/clear.
PeerUpdateRejected ==
    /\ pc = "awaitPeerUpdate"
    /\ failed' = "peer/update"
    /\ \E inSync \in SUBSET ClearNames : EnterSystemClear(log, inSync)
    /\ UNCHANGED <<hadPeer, refreshed, outcome, lateClear>>

\* update, lines 25, 31: peer/current/set resolved; update returns.
CurrentSetResolved ==
    /\ pc = "awaitSet"
    /\ current' = log[Len(log)].peer
    /\ pool' = pool \cup {log[Len(log)].peer}
    /\ pc' = "idle"
    /\ outcome' = "returned"
    /\ UNCHANGED <<hadPeer, refreshed, failed, log, deferred, lateClear>>

\* update, lines 25-28: peer/current/set rejected inside the same try.
CurrentSetRejected ==
    /\ pc = "awaitSet"
    /\ failed' = "peer/current/set"
    /\ \E inSync \in SUBSET ClearNames : EnterSystemClear(log, inSync)
    /\ UNCHANGED <<hadPeer, refreshed, outcome, lateClear>>

\* system/clear line 39 resolved, so `await dispatch('system/clear')`
\* resolves and update dispatches peers/refresh (lines 19, 29).
ConnectResolved(best) ==
    /\ pc = "awaitConnect"
    /\ current' = best
    /\ pool' = pool \cup {best}
    /\ log' = Append(log, Dispatch("peers/refresh", NoPeer, "unset"))
    /\ pc' = "awaitRefresh"
    /\ UNCHANGED <<hadPeer, refreshed, failed, outcome, deferred, lateClear>>

\* system/clear line 39 rejected: system/clear rejects, and the await in
\* update (line 18, or line 28 inside the catch) throws out of update.
ConnectRejected ==
    /\ pc = "awaitConnect"
    /\ pc' = "idle"
    /\ outcome' = "threw"
    /\ UNCHANGED <<current, pool, hadPeer, refreshed, failed, log, deferred,
                   lateClear>>

\* update, lines 19-20 and 29-31: peers/refresh resolved; update returns.
RefreshResolved(found) ==
    /\ pc = "awaitRefresh"
    /\ pool' = pool \cup found
    /\ pc' = "idle"
    /\ outcome' = "returned"
    /\ UNCHANGED <<current, hadPeer, refreshed, failed, log, deferred, lateClear>>

\* update, lines 19 and 29: peers/refresh rejected outside any try.
RefreshRejected ==
    /\ pc = "awaitRefresh"
    /\ pc' = "idle"
    /\ outcome' = "threw"
    /\ UNCHANGED <<current, pool, hadPeer, refreshed, failed, log, deferred,
                   lateClear>>

\* An un-awaited clear (lines 37-38) takes effect on a later turn of the
\* event loop, that is after line 39 has dispatched peers/connectToBest.
DeferredClear(c) ==
    /\ c \in deferred
    /\ deferred' = deferred \ {c}
    /\ pool' = IF c = "peers/clear" THEN PeersClearEffect(pool) ELSE pool
    /\ current' = IF c = "current/clear" THEN CurrentClearEffect(current) ELSE current
    /\ lateClear' = TRUE
    /\ UNCHANGED <<pc, hadPeer, refreshed, failed, log, outcome>>

\* An un-awaited clear (lines 37-38) rejects: nobody holds its promise, so
\* the rejection reaches no caller and the clear has no effect.
DeferredClearRejected(c) ==
    /\ c \in deferred
    /\ deferred' = deferred \ {c}
    /\ UNCHANGED <<current, pool, pc, hadPeer, refreshed, failed, log, outcome,
                   lateClear>>

PeerInit ==
    /\ current \in PeerIds \cup {NoPeer}
    /\ pool \in {pl \in SUBSET PeerIds : current = NoPeer \/ current \in pl}
    /\ pc = "idle"
    /\ hadPeer = FALSE
    /\ refreshed = NoPeer
    /\ failed = "none"
    /\ log = <<>>
    /\ outcome = "none"
    /\ deferred = {}
    /\ lateClear = FALSE

PeerIdle ==
    /\ current = NoPeer
    /\ pool = {}
    /\ pc = "idle"
    /\ hadPeer = FALSE
    /\ refreshed = NoPeer
    /\ failed = "none"
    /\ log = <<>>
    /\ outcome = "none"
    /\ deferred = {}
    /\ lateClear = FALSE

(***************************************************************************)
(*                 CLIENT SERVICE  (renderer/services/client.js)           *)
(***************************************************************************)
\* JavaScript null for the host, the version and the profile.
Null == "null"
NoVersion == 0
NoProfile == 0
Profiles == 1..MaxProfiles

\* The connection `new ApiClient('http://')` starts with.
Placeholder == "http://"

\* store.getters['network/byId'](profile.networkId): the network registry.
\* Profiles alternate between a v1 network and a v2 network.
NetworkById(prof) ==
    IF prof % 2 = 1
    THEN [server |-> "http://seed.v1.net:4001", apiVersion |-> 1]
    ELSE [server |-> "https://seed.v2.net:4003", apiVersion |-> 2]

\* store.getters['peer/current'](): null, the empty object, or a peer.
\* A version string is the sequence of its characters.
NullPeer == [isNull |-> TRUE]
EmptyPeer == [k \in {} |-> ""]
KnownPeers ==
    { [ip |-> "10.0.0.1", port |-> "4001", version |-> <<"1", ".", "0", ".", "0">>],
      [ip |-> "10.0.0.2", port |-> "4002", version |-> <<"2", ".", "1", ".", "0">>],
      [ip |-> "10.0.0.3", port |-> "4003", version |-> <<"1", "2", ".", "0">>],
      [ip |-> "10.0.0.4", port |-> "4004", version |-> <<"2", "0", ".", "1">>] }
PeerValues == {NullPeer, EmptyPeer} \cup KnownPeers

\* The value the store watcher observes (line 407): the active profile.
WatchedValueWithPeer(prof, peer) == <<prof, peer>>
WatchedValue(prof, peer) == prof

\* Line 414: currentPeer && Object.keys(currentPeer).length > 0
PeerSelected(peer) == peer # NullPeer /\ Cardinality(DOMAIN peer) > 0

\* Line 415: `http://${currentPeer.ip}:${currentPeer.port}`
PeerUrl(peer) == "http://" \o peer.ip \o ":" \o peer.port

\* Line 416: currentPeer.version.match(/^2\./) ? 2 : 1
MatchesTwoDotAnywhere(v) ==
    \E i \in 1..(Len(v) - 1) : v[i] = "2" /\ v[i + 1] = "."
MatchesTwoDot(v) == Len(v) >= 2 /\ v[1] = "2" /\ v[2] = "."
PeerApiVersionUnanchored(peer) == IF MatchesTwoDotAnywhere(peer.version) THEN 2 ELSE 1
PeerApiVersion(peer) == IF MatchesTwoDot(peer.version) THEN 2 ELSE 1

\* The effects of one run of the watcher callback on an active profile,
\* in order: the two setters, then eventBus.emit('client:changed').
CallbackEffects == <<"set host", "set version", "emit client:changed">>

\* The setters (lines 49-52 and 58-61) write the field and the ApiClient.
SetHost(h) == host' = h /\ clientHost' = h
SetVersionClientOnly(v) == version' = version /\ clientVersion' = v
SetVersion(v) == version' = v /\ clientVersion' = v

\* The watcher callback (lines 408-423) applied to the profile `prof`.
WatcherCallback(prof) ==
    IF prof = NoProfile
    THEN /\ lastRun' = <<>>
         /\ UNCHANGED <<host, version, clientHost, clientVersion>>
    ELSE /\ IF PeerSelected(selPeer)
            THEN SetHost(PeerUrl(selPeer)) /\ SetVersion(PeerApiVersion(selPeer))
            ELSE /\ SetHost(NetworkById(prof).server)
                 /\ SetVersion(NetworkById(prof).apiVersion)
         /\ lastRun' = CallbackEffects

NoCall == [kind |-> "none"]
NoResult == [kind |-> "none"]

\* constructor (lines 9-17); with watchProfile the watcher is registered
\* with immediate: true, which runs the callback at once (lines 406-425).
Construct(watchProfile) ==
    /\ ~constructed
    /\ constructed' = TRUE
    /\ watching' = watchProfile
    /\ watcherQueued' = FALSE
    /\ IF watchProfile /\ profile # NoProfile
       THEN WatcherCallback(profile)
       ELSE /\ host' = Null
            /\ version' = NoVersion
            /\ clientHost' = Placeholder
            /\ clientVersion' = NoVersion
            /\ lastRun' = <<>>
    /\ UNCHANGED <<profile, selPeer, call, result>>

\* The state container changes the active profile; the watcher is queued
\* when the value it observes changed.
SetProfile(p) ==
    /\ p # profile
    /\ profile' = p
    /\ watcherQueued' = (watcherQueued \/
                         (watching /\ WatchedValue(p, selPeer) # WatchedValue(profile, selPeer)))
    /\ UNCHANGED <<constructed, watching, selPeer, host, version, clientHost,
                   clientVersion, lastRun, call, result>>

\* The state container changes the selected peer.
SelectPeer(sp) ==
    /\ sp # selPeer
    /\ selPeer' = sp
    /\ watcherQueued' = (watcherQueued \/
                         (watching /\ WatchedValue(profile, sp) # WatchedValue(profile, selPeer)))
    /\ UNCHANGED <<constructed, watching, profile, host, version, clientHost,
                   clientVersion, lastRun, call, result>>

\* The queued watcher runs its callback with the profile now active.
WatcherRun ==
    /\ watcherQueued
    /\ watcherQueued' = FALSE
    /\ WatcherCallback(profile)
    /\ UNCHANGED <<constructed, watching, profile, selPeer, call, result>>

FetchKinds == {"fetchPeerStatus", "fetchDelegates", "fetchTransactions",
               "fetchWallet", "fetchWalletVote"}

\* The dialect a fetch method settles on before it awaits its response:
\* fetchPeerStatus (68) and fetchTransactions (132) test `=== 1`,
\* fetchWallet (199) and fetchWalletVote (232) test `=== 2`;
\* fetchDelegates (77) awaits first and has settled on nothing yet.
BranchBeforeAwait(kind, v) ==
    CASE kind \in {"fetchPeerStatus", "fetchTransactions"} -> IF v = 1 THEN 1 ELSE 2
      [] kind \in {"fetchWallet", "fetchWalletVote"} -> IF v = 2 THEN 2 ELSE 1
      [] OTHER -> 0

\* The dialect the response is read in: fetchDelegates tests
\* this.__version after the await (line 79), the others follow the branch
\* they are in.
ShapedAs(c, vNow) ==
    IF c.kind = "fetchDelegates" THEN (IF vNow = 2 THEN 2 ELSE 1) ELSE c.branch

\* What a method returns for a payload of dialect `sent` read as dialect
\* `shaped` (fetchDelegates, lines 79-98): a v1 payload read as v2 has no
\* data.data, a v2 payload read as v1 has no success flag.
ShapeResponse(sent, shaped, ok) ==
    CASE sent = shaped /\ (shaped = 2 \/ ok) -> "canonical"
      [] sent = shaped -> "sentinel"
      [] shaped = 2 -> "undefined"
      [] OTHER -> "sentinel"

\* A fetch method is called and suspends on its request.
FetchIssue(kind) ==
    /\ constructed
    /\ call = NoCall
    /\ call' = [kind |-> kind, boundAtCall |-> version, sentTo |-> clientHost,
                sentAs |-> clientVersion, branch |-> BranchBeforeAwait(kind, version)]
    /\ result' = NoResult
    /\ UNCHANGED <<constructed, watching, profile, selPeer, host, version,
                   clientHost, clientVersion, watcherQueued, lastRun>>

\* The response arrives and the method shapes it.
FetchResolved(ok) ==
    /\ call # NoCall
    /\ call.sentTo # Placeholder
    /\ result' = [kind |-> call.kind, boundAtCall |-> call.boundAtCall,
                  shapedAs |-> ShapedAs(call, version),
                  value |-> ShapeResponse(call.sentAs, ShapedAs(call, version), ok)]
    /\ call' = NoCall
    /\ UNCHANGED <<constructed, watching, profile, selPeer, host, version,
                   clientHost, clientVersion, watcherQueued, lastRun>>

\* The transport fails; the error propagates to the caller.
FetchRejected ==
    /\ call # NoCall
    /\ result' = [kind |-> call.kind, boundAtCall |-> call.boundAtCall,
                  shapedAs |-> 0, value |-> "threw"]
    /\ call' = NoCall
    /\ UNCHANGED <<constructed, watching, profile, selPeer, host, version,
                   clientHost, clientVersion, watcherQueued, lastRun>>

ClientInit ==
    /\ constructed = FALSE
    /\ watching = FALSE
    /\ profile \in Profiles \cup {NoProfile}
    /\ selPeer \in PeerValues
    /\ host = Null
    /\ version = NoVersion
    /\ clientHost = Null
    /\ clientVersion = NoVersion
    /\ watcherQueued = FALSE
    /\ lastRun = <<>>
    /\ call = NoCall
    /\ result = NoResult

ClientIdle ==
    /\ constructed = FALSE
    /\ watching = FALSE
    /\ profile = NoProfile
    /\ selPeer = NullPeer
    /\ host = Null
    /\ version = NoVersion
    /\ clientHost = Null
    /\ clientVersion = NoVersion
    /\ watcherQueued = FALSE
    /\ lastRun = <<>>
    /\ call = NoCall
    /\ result = NoResult

(***************************************************************************)
(*              TRANSACTION BUILDERS  (client.js, lines 292-386)           *)
(***************************************************************************)
\* An argument left out of the call.
Undefined == "undefined"
Passphrases == {Undefined, "", "passphrase one", "passphrase two"}
SecondPassphrases == {Undefined, "", "second passphrase"}
Wifs == {Undefined, "", "wif key"}

\* JavaScript truthiness of a string argument: `if (passphrase)`.
Truthy(x) == x # Undefined /\ x # ""

\* One call on the fluent builder.
Step(op, arg) == [op |-> op, arg |-> arg]

\* if (passphrase) sign(passphrase) else if (wif) signWithWif(wif)
\* (lines 297-301, 323-327, 354-358, 379-383).
PrimarySigningWifFirst(passphrase, wif) ==
    IF Truthy(wif) THEN << Step("signWithWif", wif) >>
    ELSE IF Truthy(passphrase) THEN << Step("sign", passphrase) >>
    ELSE << >>
PrimarySigning(passphrase, wif) ==
    IF Truthy(passphrase) THEN << Step("sign", passphrase) >>
    ELSE IF Truthy(wif) THEN << Step("signWithWif", wif) >>
    ELSE << >>

\* if (secondPassphrase) secondSign(secondPassphrase)
\* (lines 303-305, 329-331, 360-362).
SecondSigning(secondPassphrase) ==
    IF Truthy(secondPassphrase) THEN << Step("secondSign", secondPassphrase) >>
    ELSE << >>

Built(kind, passphrase, secondPassphrase, wif, steps) ==
    [kind |-> kind, passphrase |-> passphrase, secondPassphrase |-> secondPassphrase,
     wif |-> wif, steps |-> steps]

\* buildVote (lines 292-308).
buildVote(passphrase, secondPassphrase, wif) ==
    /\ built' = Built("vote", passphrase, secondPassphrase, wif,
                      << Step("vote", ""), Step("votesAsset", "votes") >>
                      \o PrimarySigning(passphrase, wif)
                      \o SecondSigning(secondPassphrase)
                      \o << Step("getStruct", "") >>)
    /\ UNCHANGED <<peerVars, clientVars, wallet>>

\* buildDelegateRegistration (lines 318-334).
buildDelegateRegistration(passphrase, secondPassphrase, wif) ==
    /\ built' = Built("delegateRegistration", passphrase, secondPassphrase, wif,
                      << Step("delegateRegistration", ""), Step("usernameAsset", "username") >>
                      \o PrimarySigning(passphrase, wif)
                      \o SecondSigning(secondPassphrase)
                      \o << Step("getStruct", "") >>)
    /\ UNCHANGED <<peerVars, clientVars, wallet>>

\* buildTransfer (lines 347-365).
buildTransfer(passphrase, secondPassphrase, wif) ==
    /\ built' = Built("transfer", passphrase, secondPassphrase, wif,
                      << Step("transfer", ""), Step("amount", "amount"),
                         Step("recipientId", "recipientId"),
                         Step("vendorField", "vendorField") >>
                      \o PrimarySigning(passphrase, wif)
                      \o SecondSigning(secondPassphrase)
                      \o << Step("getStruct", "") >>)
    /\ UNCHANGED <<peerVars, clientVars, wallet>>

\* buildSecondSignatureRegistration (lines 374-386): the second passphrase
\* is the asset, and no secondSign follows.
buildSecondSignatureRegistration(passphrase, secondPassphrase, wif) ==
    /\ built' = Built("secondSignature", passphrase, secondPassphrase, wif,
                      << Step("secondSignature", ""),
                         Step("signatureAsset", secondPassphrase) >>
                      \o PrimarySigning(passphrase, wif)
                      \o << Step("getStruct", "") >>)
    /\ UNCHANGED <<peerVars, clientVars, wallet>>

(***************************************************************************)
(*                  fetchWallet  (client.js, lines 196-221)                *)
(***************************************************************************)
\* JavaScript values of a payload.
JNull == [t |-> "null"]
JUndefined == [t |-> "undefined"]
JNaN == [t |-> "NaN"]
JBool(b) == [t |-> "boolean", bool |-> b]
JNum(n) == [t |-> "number", num |-> n]
JStr(chars) == [t |-> "string", chars |-> chars]
JArray == [t |-> "array"]

\* obj[key] of a JavaScript object: undefined when the key is absent.
Get(obj, key) == IF key \in DOMAIN obj THEN obj[key] ELSE JUndefined
\* obj[key] = value
Put(obj, key, value) ==
    [k \in DOMAIN obj \cup {key} |-> IF k = key THEN value ELSE obj[k]]
\* delete obj[key], for each key of `keys`
Delete(obj, keys) == [k \in DOMAIN obj \ keys |-> obj[k]]

Digits == <<"0", "1", "2", "3", "4", "5", "6", "7", "8", "9">>
IsDigit(c) == \E d \in DOMAIN Digits : Digits[d] = c
DigitValue(c) == (CHOOSE d \in DOMAIN Digits : Digits[d] = c) - 1

\* parseInt of a string: the number spelled by its leading digits.
RECURSIVE ParseDigits(_, _, _)
ParseDigits(chars, i, acc) ==
    IF i > Len(chars) \/ ~IsDigit(chars[i]) THEN acc
    ELSE ParseDigits(chars, i + 1, acc * 10 + DigitValue(chars[i]))

\* parseInt(value) (line 217): an integer stays itself, a string gives its
\* leading digits, anything else is NaN.
ParseInt(value) ==
    CASE value.t = "number" -> value
      [] value.t = "string" /\ Len(value.chars) > 0 /\ IsDigit(value.chars[1]) ->
             JNum(ParseDigits(value.chars, 1, 0))
      [] OTHER -> JNaN

LegacyKeys == {"unconfirmedBalance", "unconfirmedSignature", "secondSignature",
               "multisignatures", "u_multisignatures"}
LegacyValue(key) ==
    CASE key = "unconfirmedBalance" -> JStr(<<"5">>)
      [] key \in {"unconfirmedSignature", "secondSignature"} -> JNum(0)
      [] OTHER -> JArray

\* walletData.username !== null (line 207)
IsDelegateOf(account) == JBool(Get(account, "username") # JNull)

\* The wallet fetchWallet returns for the response body `data`, with
\* apiVersion `v` bound (lines 197-220).
WalletResult(v, data) ==
    LET walletData ==
            IF v = 2 THEN data.data
            ELSE IF data.success
                 THEN Delete(Put(data.account, "isDelegate", IsDelegateOf(data.account)),
                             LegacyKeys)
                 ELSE JNull
    IN  IF walletData # JNull
        THEN Put(walletData, "balance", ParseInt(Get(walletData, "balance")))
        ELSE JNull

\* The response bodies of the node: balances come as decimal strings or as
\* numbers.
BalanceValues == {JStr(<<"1", "0", "0">>), JStr(<<"0">>), JNum(100)}
UsernameValues == {JNull, JStr(<<"b", "o", "b">>)}
AccountBase(balance) ==
    [address |-> JStr(<<"ADDR1">>), balance |-> balance, publicKey |-> JNull,
     secondPublicKey |-> JNull]
WithLegacy(account, keys) ==
    [k \in DOMAIN account \cup keys |->
        IF k \in DOMAIN account THEN account[k] ELSE LegacyValue(k)]
V1Accounts ==
    { WithLegacy(a, keys) :
        a \in {AccountBase(b) : b \in BalanceValues}
              \cup {Put(AccountBase(b), "username", u) :
                        b \in BalanceValues, u \in UsernameValues},
        keys \in SUBSET LegacyKeys }
V1Bodies == {[success |-> ok, account |-> a] : ok \in BOOLEAN, a \in V1Accounts}
V2Bodies ==
    {[data |-> Put(AccountBase(b), "isDelegate", JBool(d))] :
        b \in BalanceValues, d \in BOOLEAN}

\* fetchWallet (lines 196-221) answered with the body `data`.
fetchWallet(v, data) ==
    /\ wallet' = [version |-> v, data |-> data, result |-> WalletResult(v, data)]
    /\ UNCHANGED <<peerVars, clientVars, built>>

NoBuild == [kind |-> "none"]
NoFetch == [version |-> 0]

Init == ClientInit /\ PeerIdle /\ built = NoBuild /\ wallet = NoFetch

Next ==
    \/ \E w \in BOOLEAN : Construct(w) /\ UNCHANGED <<peerVars, built, wallet>>
    \/ \E p \in Profiles \cup {NoProfile} : SetProfile(p) /\ UNCHANGED <<peerVars, built, wallet>>
    \/ \E sp \in PeerValues : SelectPeer(sp) /\ UNCHANGED <<peerVars, built, wallet>>
    \/ WatcherRun /\ UNCHANGED <<peerVars, built, wallet>>
    \/ \E k \in FetchKinds : FetchIssue(k) /\ UNCHANGED <<peerVars, built, wallet>>
    \/ \E ok \in BOOLEAN : FetchResolved(ok) /\ UNCHANGED <<peerVars, built, wallet>>
    \/ FetchRejected /\ UNCHANGED <<peerVars, built, wallet>>

Spec == Init /\ [][Next]_vars

\* The watcher's flush is scheduled by the framework as soon as it is queued.
FairSpec == Spec /\ WF_vars(WatcherRun /\ UNCHANGED <<peerVars, built, wallet>>)

InitPeer == PeerInit /\ ClientIdle /\ built = NoBuild /\ wallet = NoFetch

NextPeer ==
    \/ UpdateStart /\ UNCHANGED <<clientVars, built, wallet>>
    \/ \E r \in PeerIds : PeerUpdateResolved(r) /\ UNCHANGED <<clientVars, built, wallet>>
    \/ PeerUpdateRejected /\ UNCHANGED <<clientVars, built, wallet>>
    \/ CurrentSetResolved /\ UNCHANGED <<clientVars, built, wallet>>
    \/ CurrentSetRejected /\ UNCHANGED <<clientVars, built, wallet>>
    \/ \E b \in PeerIds : ConnectResolved(b) /\ UNCHANGED <<clientVars, built, wallet>>
    \/ ConnectRejected /\ UNCHANGED <<clientVars, built, wallet>>
    \/ \E f \in SUBSET PeerIds : RefreshResolved(f) /\ UNCHANGED <<clientVars, built, wallet>>
    \/ RefreshRejected /\ UNCHANGED <<clientVars, built, wallet>>
    \/ \E c \in ClearNames : DeferredClear(c) /\ UNCHANGED <<clientVars, built, wallet>>
    \/ \E c \in ClearNames : DeferredClearRejected(c) /\ UNCHANGED <<clientVars, built, wallet>>

SpecPeer == InitPeer /\ [][NextPeer]_vars

InitBuild == PeerIdle /\ ClientIdle /\ built = NoBuild /\ wallet = NoFetch

NextBuild ==
    \/ \E p \in Passphrases, s \in SecondPassphrases, w \in Wifs : buildVote(p, s, w)
    \/ \E p \in Passphrases, s \in SecondPassphrases, w \in Wifs :
           buildDelegateRegistration(p, s, w)
    \/ \E p \in Passphrases, s \in SecondPassphrases, w \in Wifs : buildTransfer(p, s, w)
    \/ \E p \in Passphrases, s \in SecondPassphrases, w \in Wifs :
           buildSecondSignatureRegistration(p, s, w)

SpecBuild == InitBuild /\ [][NextBuild]_vars

InitWallet == PeerIdle /\ ClientIdle /\ built = NoBuild /\ wallet = NoFetch

NextWallet ==
    \/ \E data \in V1Bodies : fetchWallet(1, data)
    \/ \E data \in V2Bodies : fetchWallet(2, data)

SpecWallet == InitWallet /\ [][NextWallet]_vars

(***************************************************************************)
(*                     PROPERTIES OF THE PEER SYSTEM                       *)
(***************************************************************************)
Has(type) == \E i \in DOMAIN log : log[i].type = type
RecoveryTaken ==
    Has("peers/clear") \/ Has("current/clear") \/ Has("peers/connectToBest")

\* C1: no exception escapes a call of `update`, whichever dispatched
\* action fails: the call never ends by throwing to its caller.
C1_NoExceptionEscapes == outcome # "threw"

\* C2: when `update` found no current peer, or a dispatch of its try block
\* failed, it has dispatched peers/clear, current/clear and
\* peers/connectToBest, and every reconnect request carries
\* skipIfCustom:false.
C2_RecoveryDispatches ==
    (outcome # "none" /\ (~hadPeer \/ failed # "none")) =>
        /\ Has("peers/clear")
        /\ Has("current/clear")
        /\ Has("peers/connectToBest")
        /\ \A i \in DOMAIN log :
               log[i].type = "peers/connectToBest" => log[i].skipIfCustom = "false"

\* C2 witness: the refresh of an existing peer failed and the reconnect
\* request went out.
C2_Witness ==
    hadPeer /\ failed = "peer/update" /\ Has("peers/connectToBest")

\* C9 as stated: recovery is taken only without a current peer or when
\* peer/update fails; once peer/update succeeded the refreshed peer is
\* committed through peer/current/set and no clear or reconnect is
\* dispatched.
C9_RecoveryOnlyOnRefreshFailure ==
    outcome # "none" =>
        /\ RecoveryTaken => (~hadPeer \/ failed = "peer/update")
        /\ (hadPeer /\ refreshed # NoPeer) =>
               /\ ~RecoveryTaken
               /\ log[2] = Dispatch("peer/current/set", refreshed, "unset")

\* C9 amended: recovery is taken only without a current peer or when
\* peer/update or peer/current/set fails; once peer/update succeeded the
\* refreshed peer is handed to peer/current/set, and when that succeeds
\* too nothing else is dispatched.
C9_RecoveryOnlyOnTryFailure ==
    outcome # "none" =>
        /\ RecoveryTaken => (~hadPeer \/ failed \in {"peer/update", "peer/current/set"})
        /\ (hadPeer /\ refreshed # NoPeer) =>
               log[2] = Dispatch("peer/current/set", refreshed, "unset")
        /\ (hadPeer /\ refreshed # NoPeer /\ failed = "none") => ~RecoveryTaken
        /\ (hadPeer /\ outcome = "returned" /\ failed = "none") =>
               /\ refreshed # NoPeer
               /\ Len(log) = 2

\* C9 witness: the refresh returned another peer than the one it was
\* given, committing it failed, and recovery was taken.
C9_Witness ==
    /\ failed = "peer/current/set"
    /\ refreshed # log[1].peer
    /\ RecoveryTaken

\* C10: no clear takes effect after peers/connectToBest has begun.
C10_ClearsBeforeReconnect == ~lateClear

(***************************************************************************)
(*                    PROPERTIES OF THE CLIENT SERVICE                     *)
(***************************************************************************)
\* C3 as stated: once a ClientService is constructed, `host` never reads
\* null and `version` reads 1 or 2.
C3_TargetNeverNull ==
    constructed => (host # Null /\ version \in {1, 2})

\* C3 amended: once a ClientService is constructed, the connection of its
\* ApiClient is never null (it starts at the placeholder), while `host` and
\* `version` read null as long as nothing is bound; once the watcher has
\* processed an active profile, `host` is the bound URL and `version` is 1
\* or 2, and the ApiClient carries the same pair.
C3_BoundOrPlaceholder ==
    constructed =>
        /\ clientHost # Null
        /\ \/ host = Null /\ version = NoVersion /\ clientHost = Placeholder
           \/ /\ host \notin {Null, Placeholder}
              /\ version \in {1, 2}
              /\ clientHost = host
              /\ clientVersion = version
        /\ lastRun # <<>> => host # Null

\* C3 witness: a constructed client whose `host` and `version` read null.
C3_Witness ==
    constructed /\ watching /\ host = Null /\ version = NoVersion

\* C4 as stated: a selected peer, with a profile active and the watcher
\* installed, is eventually the peer the client is bound to (unless the
\* selection or the profile changes again first).
C4_PeerChangeRebinds ==
    \A p \in KnownPeers :
        (watching /\ profile # NoProfile /\ selPeer = p)
            ~> \/ host = "http://" \o p.ip \o ":" \o p.port
               \/ selPeer # p
               \/ profile = NoProfile

\* C4 amended: a change of the active profile queues the watcher and is
\* eventually processed; a change of the selected peer alone neither queues
\* the watcher nor touches the binding nor emits a notification.
C4_OnlyProfileChangeRebinds ==
    /\ watcherQueued ~> ~watcherQueued
    /\ [][ (selPeer' # selPeer) =>
              UNCHANGED <<host, version, clientHost, clientVersion,
                          lastRun, watcherQueued>> ]_vars

\* C4 witness: the watcher is installed and idle, a profile is active, a
\* peer is selected, and the client is bound elsewhere.
C4_Witness ==
    /\ watching /\ ~watcherQueued
    /\ profile # NoProfile
    /\ selPeer \in KnownPeers
    /\ host \notin {Null, "http://" \o selPeer.ip \o ":" \o selPeer.port}

\* A step in which the watcher callback runs on an active profile: the
\* queued run, or the immediate run at construction.
CallbackOnActiveProfile ==
    /\ profile # NoProfile
    /\ \/ watcherQueued /\ ~watcherQueued'
       \/ ~constructed /\ constructed' /\ watching'

\* C5: each run of the watcher callback on an active profile leaves the
\* client bound to http://<ip>:<port> of the selected peer, with version 2
\* when the peer's version string begins with "2." and 1 otherwise, or,
\* with no peer selected, to the server and apiVersion of the profile's
\* network; and it emits exactly one notification, after the rebind.
C5_WatcherBinding ==
    [][ CallbackOnActiveProfile =>
          /\ selPeer \in KnownPeers =>
                /\ host' = "http://" \o selPeer.ip \o ":" \o selPeer.port
                /\ version' = IF SubSeq(selPeer.version, 1, 2) = <<"2", ".">>
                              THEN 2 ELSE 1
          /\ selPeer \notin KnownPeers =>
                /\ host' = NetworkById(profile).server
                /\ version' = NetworkById(profile).apiVersion
          /\ Cardinality({i \in DOMAIN lastRun' : lastRun'[i] = "emit client:changed"}) = 1
          /\ lastRun'[Len(lastRun')] = "emit client:changed"
          /\ Len(lastRun') = 3 ]_vars

\* C5 witness: the callback has bound the client to a selected peer whose
\* version string holds "2." without beginning with it.
C5_Witness ==
    /\ lastRun = CallbackEffects
    /\ profile # NoProfile
    /\ selPeer \in KnownPeers
    /\ selPeer.version = <<"1", "2", ".", "0">>
    /\ host = "http://10.0.0.3:4003"
    /\ version = 1

\* C6: a completed fetch call whose client was bound to version 1 or 2
\* when it was issued has read its response in that version.
C6_VersionAtCallTime ==
    (result # NoResult /\ result.value # "threw" /\ result.boundAtCall \in {1, 2})
        => result.shapedAs = result.boundAtCall

(***************************************************************************)
(*             PROPERTIES OF THE BUILDERS AND OF fetchWallet               *)
(***************************************************************************)
\* An argument counts as supplied when it is a non-empty string.
Supplied(x) == x \notin {Undefined, ""}
PrimarySteps == {i \in DOMAIN built.steps : built.steps[i].op \in {"sign", "signWithWif"}}
SecondSteps == {i \in DOMAIN built.steps : built.steps[i].op = "secondSign"}
StructSteps == {i \in DOMAIN built.steps : built.steps[i].op = "getStruct"}

\* C7: every build applies at most one primary signing step, the
\* passphrase one whenever a passphrase is supplied and the WIF one only
\* when a WIF but no passphrase is supplied; a second-sign step is applied,
\* after the primary step, exactly when a second passphrase is supplied and
\* the kind is not second-signature registration; struct extraction is the
\* last step.
C7_SigningPipeline ==
    built # NoBuild =>
        /\ Cardinality(PrimarySteps) <= 1
        /\ Supplied(built.passphrase) =>
               \E i \in PrimarySteps : built.steps[i] = Step("sign", built.passphrase)
        /\ (~Supplied(built.passphrase) /\ Supplied(built.wif)) =>
               \E i \in PrimarySteps : built.steps[i] = Step("signWithWif", built.wif)
        /\ (~Supplied(built.passphrase) /\ ~Supplied(built.wif)) => PrimarySteps = {}
        /\ (SecondSteps # {}) <=>
               (Supplied(built.secondPassphrase) /\ built.kind # "secondSignature")
        /\ Cardinality(SecondSteps) <= 1
        /\ \A i \in SecondSteps :
               /\ built.steps[i].arg = built.secondPassphrase
               /\ \A j \in PrimarySteps : j < i
        /\ StructSteps = {Len(built.steps)}

\* C7 witness: a transfer built with a passphrase, a WIF and a second
\* passphrase all supplied.
C7_Witness ==
    /\ built.kind = "transfer"
    /\ Supplied(built.passphrase)
    /\ Supplied(built.wif)
    /\ Supplied(built.secondPassphrase)
    /\ Len(built.steps) = 7

\* The decimal spelling of a small natural number.
DecimalString(n) ==
    IF n < 10 THEN << Digits[n + 1] >>
    ELSE IF n < 100 THEN << Digits[(n \div 10) + 1], Digits[(n % 10) + 1] >>
    ELSE << Digits[(n \div 100) + 1], Digits[((n \div 10) % 10) + 1], Digits[(n % 10) + 1] >>

\* C8: with apiVersion 1 bound and a successful account payload, the
\* returned wallet has isDelegate true exactly when the payload carries a
\* non-null username (false when the key is absent), its balance is the
\* integer value of the source balance, and it has none of the legacy keys.
C8_WalletV1Shape ==
    (wallet.version = 1 /\ wallet.data.success) =>
        LET account == wallet.data.account
            shaped == wallet.result
        IN  /\ shaped.isDelegate =
                   JBool("username" \in DOMAIN account /\ account.username # JNull)
            /\ \E n \in 0..999 :
                   /\ account.balance \in {JNum(n), JStr(DecimalString(n))}
                   /\ shaped.balance = JNum(n)
            /\ DOMAIN shaped \cap LegacyKeys = {}

====
